---- MODULE Spec2Model ----
(***************************************************************************)
(* Model of src/main.py: the /scrape handler (scrape_website), the static  *)
(* fetcher (fetch_html), the Playwright navigator (render_with_playwright) *)
(* and the two extractors (extract_meta, extract_sections).                *)
(*                                                                         *)
(* Strings are modelled by what the code does with them: a URL is its      *)
(* scheme and its ?page= parameter, a text is its length together with the *)
(* document it was read from, a document is the part of its tree that the  *)
(* extractors look at.                                                     *)
(***************************************************************************)
EXTENDS Integers, Sequences, FiniteSets, TLC

\* ---------- program constants ----------
RAW_HTML_MAX_CHARS == 5000
TEXT_LENGTH_JS_THRESHOLD == 500
PLAYWRIGHT_SCROLL_TIMES == 3
MAX_PAGES == 3

\* ---------- bounds of the model ----------
\* largest value of the ?page= parameter a URL of the site carries
MaxPage == 3
\* largest number of structural blocks directly under a document's container
MaxBlocks == 2
\* largest number of a[href] elements on a page of the site
MaxAnchors == 2

\* Python's None
None == [none |-> TRUE]

\* ---------- URLs ----------
\* page = 0 stands for a URL without a parseable page parameter.
Url(s, p) == [scheme |-> s, page |-> p]

Pages == 0 .. MaxPage

\* the request bodies the handler is tried on: two that pass the scheme test
\* (one per prefix), two that do not ("ftp://..." and a bare host name)
RequestUrls == { Url("https", 0), Url("http", 0), Url("ftp", 0), Url("", 0) }

\* attribute values a link can carry: the attribute is missing (None), it is
\* the empty string, or it is a reference that replaces the page parameter
EmptyHref == [kind |-> "empty", page |-> 0]
WsHref == [kind |-> "ws", page |-> 0]
RelHref(p) == [kind |-> "rel", page |-> p]
Hrefs == {EmptyHref} \cup { RelHref(p) : p \in Pages }

\* Python truthiness of an attribute value (None and "" are falsy)
Truthy(h) == h # None /\ h # EmptyHref

AbsHref(u) == [kind |-> "abs", url |-> u]

urljoin(base, h) ==
    IF h.kind = "abs" THEN h.url
    ELSE IF h.kind = "empty" THEN base
    ELSE [base EXCEPT !.page = h.page]

\* ---------- sequences ----------
Range(s) == { s[i] : i \in 1 .. Len(s) }

RECURSIVE SumSeq(_)
SumSeq(s) == IF s = <<>> THEN 0 ELSE Head(s) + SumSeq(Tail(s))

\* ---------- texts ----------
\* a non-empty string remembers the document it was read from; the empty
\* string is the same value whatever document it came from
EmptyStr == [of |-> "", len |-> 0]
Str(id, n) == IF n = 0 THEN EmptyStr ELSE [of |-> id, len |-> n]

\* ---------- documents ----------
\* A block is one element of the tag set {header, nav, section, footer,
\* article}: its tag, the length of its stripped text, the numbers of
\* headings, a[href], img[src], non-empty lists and non-empty tables below
\* it, and the length of its serialized markup.
Block(tag, text, headings, links, images, lists, tables, raw) ==
    [tag |-> tag, text |-> text, headings |-> headings, links |-> links,
     images |-> images, lists |-> lists, tables |-> tables, raw |-> raw]

HeaderEmpty == Block("header", 0, 0, 0, 0, 0, 0, 17)
SectionText == Block("section", 250, 1, 2, 0, 0, 0, 400)
NavLinks == Block("nav", 0, 0, 1, 0, 0, 0, 40)

\* the blocks that documents of any length are built from: one that is
\* dropped and one that is kept
BlockKinds == { HeaderEmpty, SectionText }

BlockSeqs == UNION { [1 .. n -> BlockKinds] : n \in 1 .. MaxBlocks }

\* the <head> of a document, by the form each looked-up value takes
NoHead == [og |-> "absent", title |-> "absent", desc |-> "absent",
           lang |-> "absent", canonical |-> None]
FullHead == [og |-> "absent", title |-> "text", desc |-> "text",
             lang |-> "text", canonical |-> RelHref(0)]

\* kind: "empty" is the empty string, "nobody" a document with neither <main>
\* nor <body>, "body" a document with a container.  loose is the length of
\* the container's text outside its blocks.
Doc(id, kind, loose, blocks, head) ==
    [id |-> id, kind |-> kind, loose |-> loose, blocks |-> blocks, head |-> head]

LooseLens == { 0, TEXT_LENGTH_JS_THRESHOLD - 1, TEXT_LENGTH_JS_THRESHOLD }

Docs(id) ==
    { Doc(id, "empty", 0, <<>>, NoHead), Doc(id, "nobody", 0, <<>>, NoHead) }
    \cup { Doc(id, "body", n, <<>>, FullHead) : n \in LooseLens }
    \cup { Doc(id, "body", 0, << NavLinks >>, FullHead) }
    \cup { Doc(id, "body", 0, bs, FullHead) : bs \in BlockSeqs }

\* ---------- extract_meta ----------
\* the forms a looked-up string takes: the tag or attribute is absent, its
\* value is "", only whitespace, or text
Forms == { "absent", "empty", "ws", "text" }

TruthyForm(f) == f \in { "ws", "text" }

\* str.strip() of a value of the given form read from document id
Strip(id, f) == IF f = "text" THEN Str(id, 10) ELSE EmptyStr

Canonical(url, h) ==
    IF Truthy(h)
    THEN IF h.kind = "ws" THEN EmptyStr ELSE urljoin(url, h)
    ELSE None

extract_meta(url, doc) ==
    [title |-> IF TruthyForm(doc.head.og) THEN Strip(doc.id, doc.head.og)
               ELSE IF TruthyForm(doc.head.title) THEN Strip(doc.id, doc.head.title)
               ELSE EmptyStr,
     description |-> IF TruthyForm(doc.head.desc) THEN Strip(doc.id, doc.head.desc)
                     ELSE EmptyStr,
     language |-> Strip(doc.id, doc.head.lang),
     canonical |-> Canonical(url, doc.head.canonical)]

\* ---------- extract_sections ----------
\* the container taken as the only candidate when it has no block below it
ContainerBlock(doc) == Block("body", doc.loose, 0, 0, 0, 0, 0, doc.loose + 13)

Candidates(doc) ==
    IF doc.kind # "body" THEN <<>>
    ELSE IF doc.blocks = <<>> THEN << ContainerBlock(doc) >>
    ELSE doc.blocks

SectionType(tag) ==
    CASE tag = "header" -> "hero"
      [] tag = "nav" -> "nav"
      [] tag = "footer" -> "footer"
      [] OTHER -> "section"

\* the cap compared with >= instead of >
RawHtmlInclusive(id, raw) ==
    IF raw >= RAW_HTML_MAX_CHARS
    THEN [of |-> id, len |-> RAW_HTML_MAX_CHARS, marker |-> TRUE]
    ELSE [of |-> IF raw = 0 THEN "" ELSE id, len |-> raw, marker |-> FALSE]

\* str(elem) cut at the cap: the kept length, and whether the marker follows
RawHtml(id, raw) ==
    IF raw > RAW_HTML_MAX_CHARS
    THEN [of |-> id, len |-> RAW_HTML_MAX_CHARS, marker |-> TRUE]
    ELSE [of |-> IF raw = 0 THEN "" ELSE id, len |-> raw, marker |-> FALSE]

Label(id, e) ==
    IF e.headings > 0 THEN "heading"
    ELSE IF e.text > 0 THEN "words" ELSE "Section"

\* the section built for candidate e found at position idx (from 0)
Section(url, id, e, idx) ==
    [id |-> << SectionType(e.tag), idx >>,
     type |-> SectionType(e.tag),
     label |-> Label(id, e),
     sourceUrl |-> url,
     content |-> [headings |-> e.headings, text |-> Str(id, e.text),
                  links |-> e.links, images |-> e.images,
                  lists |-> e.lists, tables |-> e.tables],
     rawHtml |-> RawHtml(id, e.raw),
     truncated |-> e.raw > RAW_HTML_MAX_CHARS]

\* the content test left out
MeaningfulAlways(sec) == TRUE

\* "Only add sections with some meaningful content"
Meaningful(sec) ==
    \/ sec.content.text # EmptyStr
    \/ sec.content.links > 0
    \/ sec.content.images > 0
    \/ sec.content.lists > 0
    \/ sec.content.tables > 0

\* the index counted over the emitted sections instead of the candidates
extract_sections_renumbered(url, doc) ==
    LET Kept(e) == Meaningful(Section(url, doc.id, e, 0))
        kept == SelectSeq(Candidates(doc), Kept)
    IN [i \in 1 .. Len(kept) |-> Section(url, doc.id, kept[i], i - 1)]

extract_sections(url, doc) ==
    LET cands == Candidates(doc)
        all == [i \in 1 .. Len(cands) |-> Section(url, doc.id, cands[i], i - 1)]
    IN SelectSeq(all, Meaningful)

\* sum(len(sec["content"]["text"]) for sec in sections)
total_text_len(secs) == SumSeq([i \in 1 .. Len(secs) |-> secs[i].content.text.len])

\* ---------- the fallback section ----------
BodyText(doc) ==
    IF doc.kind = "body"
    THEN doc.loose + SumSeq([i \in 1 .. Len(doc.blocks) |-> doc.blocks[i].text])
    ELSE 0

BodyRaw(doc) ==
    IF doc.kind = "body"
    THEN 13 + doc.loose + SumSeq([i \in 1 .. Len(doc.blocks) |-> doc.blocks[i].raw])
    ELSE 0

\* html is the handler's variable of that name: None, or the static document
FallbackSource(html) == IF html # None /\ html.kind # "empty" THEN html ELSE None

FallbackSection(url, html) ==
    LET src == FallbackSource(html)
        id == IF src = None THEN "" ELSE src.id
        text == IF src = None THEN 0 ELSE BodyText(src)
        raw == IF src = None THEN 0 ELSE BodyRaw(src)
    IN [id |-> << "section", 0 >>,
        type |-> "section",
        label |-> "Page Content",
        sourceUrl |-> url,
        content |-> [headings |-> 0, text |-> Str(id, text),
                     links |-> 0, images |-> 0, lists |-> 0, tables |-> 0],
        rawHtml |-> RawHtml(id, raw),
        truncated |-> raw > RAW_HTML_MAX_CHARS]

\* ---------- results ----------
EmptyMeta == [title |-> EmptyStr, description |-> EmptyStr,
              language |-> EmptyStr, canonical |-> None]

Interactions(clicks, scrolls, pages) ==
    [clicks |-> clicks, scrolls |-> scrolls, pages |-> pages]

UrlError == [message |-> "URL must start with http:// or https://", phase |-> "fetch"]
FetchError == [message |-> "Static fetch failed (blocked, 4xx/5xx, or network error).",
               phase |-> "fetch"]
RenderError == [message |-> "JS fallback with Playwright failed.", phase |-> "render"]

build_result(url, m, secs, inter, errs) ==
    [url |-> url, meta |-> m, sections |-> secs, interactions |-> inter,
     errors |-> errs]

\* ---------- state ----------
VARIABLES
    pc,               \* where the handler / navigator stands
    url,              \* request.url
    site,             \* the site behind the URL
    errors, html, static_failed, meta, sections, interactions,
    html_js, interactions_js,          \* locals of scrape_website
    result,           \* the returned body, None until the handler returns
    fetch_calls, js_calls,             \* calls of fetch_html / render_with_playwright
    nav_inter,        \* render_with_playwright's interactions dict
    page_url,         \* page.url
    sel_i,            \* position in load_more_selectors
    next_link,        \* the pagination loop's next_link
    browser,          \* "none", "open" or "closed"
    loads,            \* the targets of page.goto, in order
    buttons,          \* the positions in load_more_selectors that match
                      \* on the page the load-more loop runs on
    tab_flow,         \* how the tab flow went: "idle" before it, then
                      \* "absent" (no tab), "clicked" or "raised"
    candidate,        \* the pagination loop's candidate element, None
                      \* when no selector of next_selectors matched
    page_anchors      \* the page numbers of the a[href] elements that every
                      \* page of a site of kind "numbered" carries

handler_vars == << url, site, errors, html, static_failed, meta, sections,
                   interactions, html_js, interactions_js, result,
                   fetch_calls, js_calls >>
scan_vars == << buttons, tab_flow, candidate, page_anchors >>
nav_vars == << nav_inter, page_url, sel_i, next_link, browser, loads,
              scan_vars >>
vars == << pc, handler_vars, nav_vars >>

\* ---------- the site the navigator browses ----------
\* "any": every page may redirect and may offer any links; "ring": three
\* pages, page k offering a[rel='next'] to page (k + 1) % 3, no redirects;
\* "numbered": every page carries the same a[href] list (page_anchors) and no
\* explicit "next" element, no redirects.  Sites are the kinds a request of
\* Init meets; the numbered kind is the one SpecNumbered starts on.
Sites == { "any", "ring" }

RingNext(p) == (p + 1) % 3

\* page.url once page.goto(target), or a click, has settled
Landing(s, target) ==
    IF s # "any" THEN { target }
    ELSE { [target EXCEPT !.page = p] : p \in Pages }

load_more_selectors ==
    << "button:has-text('Load more')", "button:has-text('Show more')",
       "a:has-text('Load more')", "a:has-text('Show more')" >>

next_selectors ==
    << "a[rel='next']", "a:has-text('Next')", "a:has-text('>')",
       "a:has-text('>>')", "button:has-text('Next')" >>

\* what the loop over next_selectors can find on the current page: the
\* index of the first selector that matches (0: none) and its href
ExplicitNext(s, cur) ==
    IF s = "ring" THEN { << 1, RelHref(RingNext(cur.page)) >> }
    ELSE IF s = "numbered" THEN { << 0, None >> }
    ELSE { << 0, None >> }
         \cup ((1 .. Len(next_selectors)) \X (Hrefs \cup { None }))

\* the page numbers carried by the page's a[href] elements (0: an anchor
\* without a parseable page parameter)
AnchorSeqs(s) ==
    IF s = "ring" THEN { <<>> }
    ELSE IF s = "numbered" THEN { page_anchors }
    ELSE UNION { [1 .. n -> Pages] : n \in 0 .. MaxAnchors }

\* ---------- numbered pagination ----------
\* int(qs["page"][0]), 1 when the parameter is missing or does not parse
current_page_num(cur) == IF cur.page = 0 THEN 1 ELSE cur.page

\* the loop over a[href]: best is candidate_next_page_num (0 for None)
RECURSIVE ScanAnchors(_, _, _)
ScanAnchors(anchors, cur_num, best) ==
    IF anchors = <<>> THEN best
    ELSE LET pnum == Head(anchors)
         IN IF pnum # 0 /\ pnum > cur_num /\ (best = 0 \/ pnum < best)
            THEN ScanAnchors(Tail(anchors), cur_num, pnum)
            ELSE ScanAnchors(Tail(anchors), cur_num, best)

\* the first anchor above the current page taken, not the smallest
NumberedNextFirst(cur, anchors) ==
    LET IsAbove(pnum) == pnum > current_page_num(cur)
        above == SelectSeq(anchors, IsAbove)
    IN IF above = <<>> THEN None
       ELSE AbsHref([cur EXCEPT !.page = Head(above)])

\* candidate_next_url: the absolute URL of the chosen anchor, or None
NumberedNext(cur, anchors) ==
    LET best == ScanAnchors(anchors, current_page_num(cur), 0)
    IN IF best = 0 THEN None ELSE AbsHref([cur EXCEPT !.page = best])

\* the loop entered whatever the length of the log
WhilePcUnbounded(pages) == "nav_next"

\* while len(interactions["pages"]) < MAX_PAGES
WhilePc(pages) == IF Len(pages) < MAX_PAGES THEN "nav_next" ELSE "nav_capture"

\* leaving the with block without touching the browser
WithExitLeavesBrowser(b) == b

\* leaving "with sync_playwright() as p": the driver stops and takes the
\* browser it launched down with it
WithExit(b) == IF b = "open" THEN "closed" ELSE b

\* ---------- the initial state ----------
\* a scheme test that only asks for some scheme
ValidSchemeAny(u) == u.scheme # ""

ValidScheme(u) == u.scheme = "http" \/ u.scheme = "https"

Init ==
    /\ pc = "validate"
    /\ url \in RequestUrls
    /\ site \in Sites
    /\ errors = <<>>
    /\ html = None
    /\ static_failed = FALSE
    /\ meta = None
    /\ sections = <<>>
    /\ interactions = None
    /\ html_js = None
    /\ interactions_js = None
    /\ result = None
    /\ fetch_calls = 0
    /\ js_calls = 0
    /\ nav_inter = None
    /\ page_url = None
    /\ sel_i = 0
    /\ next_link = None
    /\ browser = "none"
    /\ loads = <<>>
    /\ buttons = {}
    /\ tab_flow = "idle"
    /\ candidate = None
    /\ page_anchors = <<>>

\* ---------- scrape_website ----------
\* the scheme test and the early return
Validate ==
    /\ pc = "validate"
    /\ IF ValidScheme(url)
       THEN /\ pc' = "fetch"
            /\ UNCHANGED << errors, result >>
       ELSE /\ errors' = << UrlError >>
            /\ result' = build_result(url, EmptyMeta, <<>>,
                                      Interactions(<<>>, 0, <<>>), errors')
            /\ pc' = "done"
    /\ UNCHANGED << url, site, html, static_failed, meta, sections, interactions,
                    html_js, interactions_js, fetch_calls, js_calls, nav_vars >>

\* html = fetch_html(request.url) and the defaults set after it.  The
\* fetcher returns the body, returns None on an httpx.HTTPError, and lets
\* any other exception through.
FetchHtml ==
    /\ pc = "fetch"
    /\ fetch_calls' = fetch_calls + 1
    /\ \/ /\ \E d \in Docs("static") : html' = d
          /\ pc' = "extract"
       \/ /\ html' = None
          /\ pc' = "extract"
       \/ /\ html' = None
          /\ pc' = "raised"
    /\ static_failed' = IF pc' = "raised" THEN static_failed ELSE (html' = None)
    /\ meta' = IF pc' = "raised" THEN None ELSE EmptyMeta
    /\ interactions' = IF pc' = "raised" THEN None
                       ELSE Interactions(<<>>, 0, << url >>)
    /\ UNCHANGED << url, site, errors, sections, html_js, interactions_js,
                    result, js_calls, nav_vars >>

\* if not static_failed: extract from the static document
ExtractStatic ==
    /\ pc = "extract"
    /\ IF static_failed
       THEN UNCHANGED << meta, sections >>
       ELSE /\ meta' = extract_meta(url, html)
            /\ sections' = extract_sections(url, html)
    /\ pc' = "decide"
    /\ UNCHANGED << url, site, errors, html, static_failed, interactions,
                    html_js, interactions_js, result, fetch_calls, js_calls,
                    nav_vars >>

\* the fallback section synthesized only when there is static markup
final_sections_with_markup(secs, errs, u, h) ==
    IF secs = <<>> /\ errs = <<>> /\ FallbackSource(h) # None
    THEN << FallbackSection(u, h) >> ELSE secs

\* "Fallback section if still nothing but no hard failure"
final_sections(secs, errs, u, h) ==
    IF secs = <<>> /\ errs = <<>> THEN << FallbackSection(u, h) >> ELSE secs

\* the end of the handler: the fallback section and the return, from what
\* meta, sections, interactions and errors are at that point
Respond(m, secs, inter, errs) ==
    /\ meta' = m
    /\ interactions' = inter
    /\ errors' = errs
    /\ sections' = final_sections(secs, errs, url, html)
    /\ result' = build_result(url, m, sections', inter, errs)
    /\ pc' = "done"

\* the threshold compared with <= instead of <
use_js_fallback_inclusive(failed, secs) ==
    failed \/ total_text_len(secs) <= TEXT_LENGTH_JS_THRESHOLD

use_js_fallback(failed, secs) ==
    failed \/ total_text_len(secs) < TEXT_LENGTH_JS_THRESHOLD

\* the decision; then either the call of render_with_playwright up to the
\* entry of its try block, or the rest of the handler
Decide ==
    /\ pc = "decide"
    /\ IF use_js_fallback(static_failed, sections)
       THEN /\ js_calls' = js_calls + 1
            /\ nav_inter' = Interactions(<<>>, 0, << url >>)
            /\ pc' = "nav_enter"
            /\ UNCHANGED << errors, meta, sections, interactions, result >>
       ELSE /\ Respond(meta, sections, interactions, errors)
            /\ UNCHANGED << js_calls, nav_inter >>
    /\ UNCHANGED << url, site, html, static_failed, html_js, interactions_js,
                    fetch_calls, page_url, sel_i, next_link, browser, loads,
                    scan_vars >>

\* ---------- render_with_playwright ----------
\* the handler's variables no step of the navigator touches
caller_vars == << url, site, errors, html, static_failed, meta, sections,
                  interactions, result, fetch_calls, js_calls >>

\* the function returns (doc, inter) with the browser left in state b; its
\* locals are gone
Return(doc, inter, b) ==
    /\ html_js' = doc
    /\ interactions_js' = inter
    /\ browser' = b
    /\ pc' = "merge"
    /\ nav_inter' = None
    /\ page_url' = None
    /\ sel_i' = 0
    /\ next_link' = None
    /\ loads' = <<>>
    /\ buttons' = {}
    /\ tab_flow' = "idle"
    /\ candidate' = None
    /\ UNCHANGED << caller_vars, page_anchors >>

\* the except clause returning a fresh log instead of the one it filled
RaiseFresh(inter) ==
    Return(None, Interactions(<<>>, 0, << url >>), WithExit(browser))

\* an exception inside the with block: the block is left, then
\* "except Exception: return None, interactions"
Raise(inter) == Return(None, inter, WithExit(browser))

Clicked(inter, selector) == [inter EXCEPT !.clicks = Append(@, selector)]
Visited(inter, u) == [inter EXCEPT !.pages = Append(@, u)]

\* sync_playwright().__enter__()
NavEnter ==
    /\ pc = "nav_enter"
    /\ \/ /\ pc' = "nav_launch"
          /\ UNCHANGED << handler_vars, nav_vars >>
       \/ Return(None, nav_inter, browser)

\* p.chromium.launch, browser.new_context, context.new_page
NavLaunch ==
    /\ pc = "nav_launch"
    /\ \/ /\ browser' = "open"
          /\ pc' = "nav_load"
          /\ UNCHANGED << handler_vars, nav_inter, page_url, sel_i, next_link,
                          loads, scan_vars >>
       \/ Raise(nav_inter)
       \/ Return(None, nav_inter, WithExit("open"))

\* load_page(url)
NavLoadFirst ==
    /\ pc = "nav_load"
    /\ \/ /\ loads' = Append(loads, url)
          /\ \E u \in Landing(site, url) : page_url' = u
          /\ pc' = "nav_scroll"
          /\ UNCHANGED << handler_vars, nav_inter, sel_i, next_link, browser,
                          scan_vars >>
       \/ Raise(nav_inter)

\* one turn of the scroll loop; the page the last turn leaves is the one the
\* load-more loop queries
NavScroll ==
    /\ pc = "nav_scroll"
    /\ \/ /\ nav_inter' = [nav_inter EXCEPT !.scrolls = @ + 1]
          /\ IF nav_inter'.scrolls < PLAYWRIGHT_SCROLL_TIMES
             THEN pc' = "nav_scroll" /\ sel_i' = sel_i /\ buttons' = buttons
             ELSE /\ pc' = "nav_loadmore"
                  /\ sel_i' = 1
                  /\ buttons' \in SUBSET (1 .. Len(load_more_selectors))
          /\ UNCHANGED << handler_vars, page_url, next_link, browser, loads,
                          tab_flow, candidate, page_anchors >>
       \/ Raise(nav_inter)

\* "if buttons:" false: the loop goes to the selector after position i, or
\* ends after the last one (0)
AfterMiss(i) == IF i < Len(load_more_selectors) THEN i + 1 ELSE 0

\* the loop going on to the next selector after a click
AfterClickNoBreak(i) == AfterMiss(i)

\* "break  # only once": the loop ends after a click
AfterClick(i) == 0

\* one turn of the loop over load_more_selectors: the query, and on a match
\* the click, the record and the wait
NavLoadMore ==
    /\ pc = "nav_loadmore"
    /\ \/ /\ \/ /\ sel_i \notin buttons
                /\ sel_i' = AfterMiss(sel_i)
                /\ UNCHANGED << nav_inter, page_url >>
             \/ /\ sel_i \in buttons
                /\ nav_inter' = Clicked(nav_inter, load_more_selectors[sel_i])
                /\ \E u \in Landing(site, page_url) : page_url' = u
                /\ sel_i' = AfterClick(sel_i)
          /\ pc' = IF sel_i' = 0 THEN "nav_tab" ELSE "nav_loadmore"
          /\ buttons' = IF sel_i' = 0 THEN {} ELSE buttons
          /\ UNCHANGED << handler_vars, next_link, browser, loads, tab_flow,
                          candidate, page_anchors >>
       \/ Raise(nav_inter)
       \/ /\ sel_i \in buttons
          /\ Raise(Clicked(nav_inter, load_more_selectors[sel_i]))

\* the tab flow up to the click: no tab on the page, the first tab clicked,
\* or an exception from the query or the click
NavTab ==
    /\ pc = "nav_tab"
    /\ \/ /\ tab_flow' \in { "absent", "raised" }
          /\ UNCHANGED page_url
       \/ /\ tab_flow' = "clicked"
          /\ \E u \in Landing(site, page_url) : page_url' = u
    /\ pc' = "nav_tab_done"
    /\ UNCHANGED << handler_vars, nav_inter, sel_i, next_link, browser, loads,
                    buttons, candidate, page_anchors >>

\* the tab recorded as soon as its click was attempted
TabRecordedOnAttempt(inter, t) ==
    IF t \in { "clicked", "raised" } THEN Clicked(inter, "tab: [role='tab']")
    ELSE inter

\* interactions["clicks"].append("tab: [role='tab']"), the statement after
\* the click
TabRecorded(inter, t) ==
    IF t = "clicked" THEN Clicked(inter, "tab: [role='tab']") ELSE inter

\* the rest of the tab flow: the record, the wait, and "except Exception:
\* pass" for whatever was raised, the wait's exception included
NavTabDone ==
    /\ pc = "nav_tab_done"
    /\ nav_inter' = TabRecorded(nav_inter, tab_flow)
    /\ pc' = WhilePc(nav_inter.pages)
    /\ UNCHANGED << handler_vars, page_url, sel_i, next_link, browser, loads,
                    scan_vars >>

\* 1) the explicit "next" selectors
NavNextExplicit ==
    /\ pc = "nav_next"
    /\ \/ /\ \E c \in ExplicitNext(site, page_url) :
                /\ candidate' = IF c[1] = 0 THEN None ELSE [href |-> c[2]]
                /\ next_link' = c[2]
          /\ pc' = IF Truthy(next_link') THEN "nav_follow" ELSE "nav_numbered"
          /\ UNCHANGED << handler_vars, nav_inter, page_url, sel_i, browser,
                          loads, buttons, tab_flow, page_anchors >>
       \/ Raise(nav_inter)

\* 2) numbered pagination, entered when next_link is falsy
NavNextNumbered ==
    /\ pc = "nav_numbered"
    /\ \/ /\ \E a \in AnchorSeqs(site) :
                LET candidate_next_url == NumberedNext(page_url, a)
                IN next_link' = IF candidate_next_url # None
                                THEN candidate_next_url ELSE next_link
          /\ pc' = "nav_follow"
          /\ UNCHANGED << handler_vars, nav_inter, page_url, sel_i, browser,
                          loads, scan_vars >>
       \/ Raise(nav_inter)

\* the cycle guard left out
AlreadyVisitedNever(next_url, pages) == FALSE

\* "Avoid loops"
AlreadyVisited(next_url, pages) == next_url \in Range(pages)

\* the rest of the loop body: the two breaks, load_page(next_url), append
NavFollow ==
    /\ pc = "nav_follow"
    /\ IF ~Truthy(next_link) \/ AlreadyVisited(urljoin(page_url, next_link), nav_inter.pages)
       THEN /\ pc' = "nav_capture"
            /\ next_link' = None
            /\ candidate' = None
            /\ UNCHANGED << handler_vars, nav_inter, page_url, sel_i, browser,
                            loads, buttons, tab_flow, page_anchors >>
       ELSE LET next_url == urljoin(page_url, next_link)
            IN \/ /\ loads' = Append(loads, next_url)
                  /\ \E u \in Landing(site, next_url) : page_url' = u
                  /\ nav_inter' = Visited(nav_inter, next_url)
                  /\ pc' = WhilePc(nav_inter'.pages)
                  /\ next_link' = None
                  /\ candidate' = None
                  /\ UNCHANGED << handler_vars, sel_i, browser, buttons,
                                  tab_flow, page_anchors >>
               \/ Raise(nav_inter)
               \/ Raise(Visited(nav_inter, next_url))

\* the final URL appended without the membership test
FinalLogAlways(inter, current_url) == Visited(inter, current_url)

\* if current_url not in interactions["pages"]: append it
FinalLog(inter, current_url) ==
    IF current_url \in Range(inter.pages) THEN inter
    ELSE Visited(inter, current_url)

\* page.content(), the final page.url, browser.close(), return
NavFinish ==
    /\ pc = "nav_capture"
    /\ LET final == FinalLog(nav_inter, page_url)
       IN \/ Raise(nav_inter)
          \/ \E d \in Docs("rendered") : Return(d, final, WithExit("closed"))
          \/ Raise(final)

\* ---------- scrape_website, after the navigator ----------
\* the fetch-phase error recorded whether or not the static fetch had failed
render_errors_unconditional(errs, failed) ==
    errs \o << FetchError >> \o << RenderError >>

\* the errors recorded when the navigator returned no document
render_errors(errs, failed) ==
    errs \o (IF failed THEN << FetchError >> ELSE <<>>) \o << RenderError >>

\* the navigator's log taken over although it returned no document
failed_render_interactions_js(inter, inter_js) == inter_js

\* the else branch assigns nothing to interactions: the defaults stay
failed_render_interactions(inter, inter_js) == inter

\* what the handler does with the navigator's return value, to its end
JsMerge ==
    /\ pc = "merge"
    /\ IF html_js # None
       THEN Respond(extract_meta(url, html_js), extract_sections(url, html_js),
                    interactions_js, errors)
       ELSE Respond(meta, sections,
                    failed_render_interactions(interactions, interactions_js),
                    render_errors(errors, static_failed))
    /\ UNCHANGED << url, site, html, static_failed, html_js, interactions_js,
                    fetch_calls, js_calls, nav_vars >>

Next ==
    \/ Validate
    \/ FetchHtml
    \/ ExtractStatic
    \/ Decide
    \/ NavEnter
    \/ NavLaunch
    \/ NavLoadFirst
    \/ NavScroll
    \/ NavLoadMore
    \/ NavTab
    \/ NavTabDone
    \/ NavNextExplicit
    \/ NavNextNumbered
    \/ NavFollow
    \/ NavFinish
    \/ JsMerge

Spec == Init /\ [][Next]_vars

\* The handler is sequential code: whenever a step is possible the next
\* statement runs, and every wait, navigation and fetch it blocks on comes
\* back (with a value, or with its timeout raised as an exception).
FairSpec == Spec /\ WF_vars(Next)

\* ---------- the handler once the static fetch has failed ----------
\* the state once fetch_html has returned None (an httpx.HTTPError, its
\* timeout included) for a request that passed the scheme test
InitNav ==
    /\ pc = "extract"
    /\ url \in { u \in RequestUrls : ValidScheme(u) }
    /\ site \in Sites
    /\ errors = <<>>
    /\ html = None
    /\ static_failed = TRUE
    /\ meta = EmptyMeta
    /\ sections = <<>>
    /\ interactions = Interactions(<<>>, 0, << url >>)
    /\ html_js = None
    /\ interactions_js = None
    /\ result = None
    /\ fetch_calls = 1
    /\ js_calls = 0
    /\ nav_inter = None
    /\ page_url = None
    /\ sel_i = 0
    /\ next_link = None
    /\ browser = "none"
    /\ loads = <<>>
    /\ buttons = {}
    /\ tab_flow = "idle"
    /\ candidate = None
    /\ page_anchors = <<>>

\* the handler's steps from there: the navigator is always invoked
NextNav ==
    \/ ExtractStatic
    \/ Decide
    \/ NavEnter
    \/ NavLaunch
    \/ NavLoadFirst
    \/ NavScroll
    \/ NavLoadMore
    \/ NavTab
    \/ NavTabDone
    \/ NavNextExplicit
    \/ NavNextNumbered
    \/ NavFollow
    \/ NavFinish
    \/ JsMerge

SpecNav == InitNav /\ [][NextNav]_vars

\* as FairSpec: sequential code whose blocking calls all come back
FairNav == SpecNav /\ WF_vars(NextNav)

\* ---------- the pagination loop on a site with numbered links ----------
\* the state at the head of the pagination loop for a request of a page of
\* such a site: the static fetch failed, the first page is loaded and
\* scrolled, nothing was clicked
InitNumbered ==
    /\ pc = "nav_next"
    /\ url \in { Url("https", p) : p \in Pages }
    /\ site = "numbered"
    /\ page_anchors \in UNION { [1 .. n -> Pages] : n \in 0 .. MaxAnchors }
    /\ errors = <<>>
    /\ html = None
    /\ static_failed = TRUE
    /\ meta = EmptyMeta
    /\ sections = <<>>
    /\ interactions = Interactions(<<>>, 0, << url >>)
    /\ html_js = None
    /\ interactions_js = None
    /\ result = None
    /\ fetch_calls = 1
    /\ js_calls = 1
    /\ nav_inter = Interactions(<<>>, PLAYWRIGHT_SCROLL_TIMES, << url >>)
    /\ page_url = url
    /\ sel_i = 0
    /\ next_link = None
    /\ browser = "open"
    /\ loads = << url >>
    /\ buttons = {}
    /\ tab_flow = "idle"
    /\ candidate = None

NextNumbered ==
    \/ NavNextExplicit
    \/ NavNextNumbered
    \/ NavFollow
    \/ NavFinish
    \/ JsMerge

SpecNumbered == InitNumbered /\ [][NextNumbered]_vars

\* ---------- the handler on documents of every form ----------
\* the state once fetch_html has returned one of docs for a request that
\* passed the scheme test
Fetched(docs) ==
    /\ pc = "extract"
    /\ url \in { u \in RequestUrls : ValidScheme(u) }
    /\ site = "ring"
    /\ errors = <<>>
    /\ html \in docs
    /\ static_failed = FALSE
    /\ meta = EmptyMeta
    /\ sections = <<>>
    /\ interactions = Interactions(<<>>, 0, << url >>)
    /\ html_js = None
    /\ interactions_js = None
    /\ result = None
    /\ fetch_calls = 1
    /\ js_calls = 0
    /\ nav_inter = None
    /\ page_url = None
    /\ sel_i = 0
    /\ next_link = None
    /\ browser = "none"
    /\ loads = <<>>
    /\ buttons = {}
    /\ tab_flow = "idle"
    /\ candidate = None
    /\ page_anchors = <<>>

\* the handler's steps from there when the static text reaches the threshold
NextStatic ==
    \/ ExtractStatic
    \/ Decide

\* every form the href of <link rel="canonical"> takes: the attribute or the
\* element is absent, "", only whitespace, a relative or an absolute reference
CanonicalHrefs ==
    { None, EmptyHref, WsHref }
    \cup { RelHref(p) : p \in Pages }
    \cup { AbsHref(Url("https", p)) : p \in Pages }

Heads == [og : Forms, title : Forms, desc : Forms, lang : Forms,
          canonical : CanonicalHrefs]

\* documents with enough static text, one per head
MetaDocs ==
    { Doc("static", "body", TEXT_LENGTH_JS_THRESHOLD, <<>>, h) : h \in Heads }

InitMeta == Fetched(MetaDocs)

SpecMeta == InitMeta /\ [][NextStatic]_vars

\* the handler's steps from there on a site that offers an explicit "next"
\* link on every page
NextRing ==
    \/ ExtractStatic
    \/ Decide
    \/ NavEnter
    \/ NavLaunch
    \/ NavLoadFirst
    \/ NavScroll
    \/ NavLoadMore
    \/ NavTab
    \/ NavTabDone
    \/ NavNextExplicit
    \/ NavFollow
    \/ NavFinish
    \/ JsMerge

\* blocks whose markup is at or one over the cap, with text that reaches the
\* threshold; and blocks without content that bring the markup of a
\* <body> holding only them ("<body>" + block + "</body>") to the cap or
\* one over it
BigText(raw) == Block("section", TEXT_LENGTH_JS_THRESHOLD, 0, 0, 0, 0, 0, raw)
BigEmpty(raw) == Block("section", 0, 0, 0, 0, 0, 0, raw)

MarkupKinds ==
    { BigText(RAW_HTML_MAX_CHARS), BigText(RAW_HTML_MAX_CHARS + 1),
      BigEmpty(RAW_HTML_MAX_CHARS - 13), BigEmpty(RAW_HTML_MAX_CHARS - 12) }

MarkupDocs ==
    { Doc("static", "body", 0, bs, FullHead) :
        bs \in UNION { [1 .. n -> MarkupKinds] : n \in 1 .. MaxBlocks } }

InitMarkup == Fetched(MarkupDocs)

SpecMarkup == InitMarkup /\ [][NextRing]_vars

\* the tags extract_sections looks for directly under the container
StructuralTags == { "header", "nav", "section", "footer", "article" }

\* one block per tag with text that reaches the threshold, one without content
IdKinds ==
    { Block(t, n, 0, 0, 0, 0, 0, 40) :
        t \in StructuralTags, n \in { 0, TEXT_LENGTH_JS_THRESHOLD } }

\* documents of blocks of any tags, kept and dropped ones in any order, at
\* least one of them kept
IdDocs ==
    { Doc("static", "body", 0, bs, FullHead) :
        bs \in { s \in UNION { [1 .. n -> IdKinds] : n \in 1 .. MaxBlocks } :
                   \E i \in 1 .. Len(s) : s[i].text > 0 } }

InitIds == Fetched(IdDocs)

SpecIds == InitIds /\ [][NextStatic]_vars

\* ====================== properties ======================
Returned == pc = "done"

Phases(errs) == [i \in 1 .. Len(errs) |-> errs[i].phase]

\* the request URL starts with neither "http://" nor "https://"
BadScheme == url.scheme \notin { "http", "https" }

\* C1: a request whose URL starts with neither http:// nor https:// never
\* reaches the static fetcher or the navigator, and what it returns has no
\* section, the empty meta with a null canonical, the interactions
\* {clicks: [], scrolls: 0, pages: []} and exactly one error, of phase fetch.
C1_InvalidUrlResult ==
    BadScheme =>
        /\ fetch_calls = 0
        /\ js_calls = 0
        /\ pc \in { "validate", "done" }
        /\ Returned =>
              /\ result.sections = <<>>
              /\ result.meta = [title |-> EmptyStr, description |-> EmptyStr,
                                language |-> EmptyStr, canonical |-> None]
              /\ result.interactions = [clicks |-> <<>>, scrolls |-> 0, pages |-> <<>>]
              /\ Phases(result.errors) = << "fetch" >>

C1_Witness == Returned /\ url.scheme = "ftp" /\ Len(result.errors) = 1

\* the summed text length of the sections of the static document: a dropped
\* candidate has no text, so this is the sum over the candidates
StaticTextLen ==
    IF html = None \/ html.kind # "body" THEN 0
    ELSE IF html.blocks = <<>> THEN html.loose
    ELSE SumSeq([i \in 1 .. Len(html.blocks) |-> html.blocks[i].text])

BeforeDecision == pc \in { "validate", "fetch", "extract", "decide", "raised" }

\* C2: for a valid-scheme request the navigator is invoked at most once, and
\* once the decision is taken it has been invoked exactly when the static
\* fetch failed or the static sections hold fewer than 500 characters of
\* text (500 itself does not invoke it).
C2_DynamicTrigger ==
    /\ js_calls <= 1
    /\ BeforeDecision => js_calls = 0
    /\ (~BadScheme /\ ~BeforeDecision) =>
          (js_calls = 1 <=> (html = None \/ StaticTextLen < 500))

C2_Witness ==
    Returned /\ html # None /\ StaticTextLen = 500 /\ js_calls = 0

\* the navigator was invoked and returned a document
DynamicSucceeded == js_calls = 1 /\ html_js # None

\* the section's text was read from the static document
FromStatic(sec) == sec.content.text.of = "static"

\* C3: when the navigator was invoked and returned a document, the result's
\* meta and interactions are those of the dynamic pass, and every section of
\* the result is a section extracted from the rendered document or at least
\* holds no text of the static document.
C3_NoStaticContentRemains ==
    (Returned /\ DynamicSucceeded) =>
        /\ result.meta = extract_meta(url, html_js)
        /\ result.interactions = interactions_js
        /\ \A i \in 1 .. Len(result.sections) :
              \/ result.sections[i] \in Range(extract_sections(url, html_js))
              \/ ~FromStatic(result.sections[i])

\* C4: for a valid-scheme request the phases of the returned errors are
\* none when the navigator was not invoked or returned a document, [render]
\* when it failed after a successful static fetch, [fetch, render] when it
\* failed after a failed static fetch; fetch never comes without render.
C4_ErrorList ==
    (Returned /\ ~BadScheme) =>
        /\ Phases(result.errors) =
              IF js_calls = 0 \/ html_js # None THEN <<>>
              ELSE IF html = None THEN << "fetch", "render" >>
              ELSE << "render" >>
        /\ "fetch" \in Range(Phases(result.errors))
              => "render" \in Range(Phases(result.errors))

C4_Witness ==
    Returned /\ ~BadScheme /\ Phases(result.errors) = << "fetch", "render" >>

\* the sections of the last pass that produced a document
LastDoc == IF html_js # None THEN html_js ELSE html

LastExtracted ==
    IF LastDoc = None THEN <<>> ELSE extract_sections(url, LastDoc)

\* C5: a returned result without errors has at least one section; when no
\* pass extracted a section and no error was recorded, the result holds
\* exactly one section, of id section-0 and type section.
C5_NoErrorImpliesSection ==
    Returned =>
        /\ result.errors = <<>> => result.sections # <<>>
        /\ (result.errors = <<>> /\ LastExtracted = <<>>) =>
              /\ Len(result.sections) = 1
              /\ result.sections[1].id = << "section", 0 >>
              /\ result.sections[1].type = "section"

C5_Witness ==
    /\ Returned
    /\ html = None
    /\ DynamicSucceeded
    /\ LastExtracted = <<>>
    /\ Len(result.sections) = 1

\* C6: once the URL passed the scheme test no exception leaves the handler.
C6_NoExceptionEscapes == ~BadScheme => pc # "raised"

HasContent(sec) ==
    \/ sec.content.text.len > 0
    \/ sec.content.links > 0
    \/ sec.content.images > 0
    \/ sec.content.lists > 0
    \/ sec.content.tables > 0

\* C7 (as claimed): every section of a returned result has non-empty text
\* or at least one link, image, list or table.
C7_EverySectionHasContent ==
    Returned => \A i \in 1 .. Len(result.sections) : HasContent(result.sections[i])

IsFallback(sec) == sec.label = "Page Content"

\* C7 (amended): every section the section extractor emitted, in any pass and
\* in any returned result, has non-empty text or at least one link, image,
\* list or table; only the synthesized fallback section can be without.
C7_ExtractedSectionsHaveContent ==
    /\ \A i \in 1 .. Len(sections) :
          IsFallback(sections[i]) \/ HasContent(sections[i])
    /\ Returned =>
          \A i \in 1 .. Len(result.sections) :
              IsFallback(result.sections[i]) \/ HasContent(result.sections[i])

\* a returned result whose document had an empty candidate that was dropped
C7_Witness ==
    /\ Returned
    /\ LastDoc # None
    /\ HeaderEmpty \in Range(LastDoc.blocks)
    /\ result.sections # <<>>
    /\ Len(result.sections) < Len(LastDoc.blocks)
    /\ ~IsFallback(result.sections[1])

InNavigator ==
    pc \in { "nav_enter", "nav_launch", "nav_load", "nav_scroll", "nav_loadmore",
             "nav_tab", "nav_tab_done", "nav_next", "nav_numbered", "nav_follow",
             "nav_capture" }

\* C8: outside render_with_playwright no browser it launched is still open:
\* whichever way the function was left, the session was torn down first.
C8_BrowserTornDown == ~InNavigator => browser # "open"

\* the function was left by an exception after the browser was launched
C8_Witness == pc = "merge" /\ html_js = None /\ browser = "closed"

NoDuplicates(s) == \A i, j \in 1 .. Len(s) : i # j => s[i] # s[j]

PagesOf(inter) == IF inter = None THEN <<>> ELSE inter.pages

\* C9: the pages list holds no URL twice, in the navigator at every step, in
\* what it returns and in the returned result.
C9_NoDuplicatePages ==
    /\ NoDuplicates(PagesOf(nav_inter))
    /\ NoDuplicates(PagesOf(interactions_js))
    /\ NoDuplicates(PagesOf(interactions))
    /\ Returned => NoDuplicates(result.interactions.pages)

\* the navigator returned a document after a redirect added a fourth URL
C9_Witness ==
    /\ Returned
    /\ DynamicSucceeded
    /\ Len(result.interactions.pages) = 4

\* a step of the pagination loop calls page.goto
PaginationLoad == Len(loads) >= 1 /\ Len(loads') = Len(loads) + 1

\* on the ring the traversal reaches the capture with exactly the three
\* pages, each loaded once
RingTraversal ==
    (site = "ring" /\ pc = "nav_capture") =>
        /\ loads = << Url(url.scheme, 0), Url(url.scheme, 1), Url(url.scheme, 2) >>
        /\ nav_inter.pages = loads

\* C10: at most 3 pages are loaded per request; the pagination loop runs
\* only while the log holds fewer than 3 URLs and never navigates to a URL
\* already in the log; on the ring page1 -> page2 -> page3 -> page1 the
\* traversal ends with the log [page1, page2, page3], page1 loaded once.
C10_PaginationBounded ==
    /\ [](Len(loads) <= 3)
    /\ [](pc \in { "nav_next", "nav_numbered", "nav_follow" }
             => Len(nav_inter.pages) < 3)
    /\ []RingTraversal
    /\ [][PaginationLoad => loads'[Len(loads')] \notin Range(nav_inter.pages)]_vars

C10_Witness == site = "ring" /\ pc = "nav_capture" /\ Len(loads) = 3

\* the URLs with a scheme
AbsoluteUrls == [scheme : { "http", "https" }, page : Pages]

\* C11: in every returned result meta.canonical is null or a non-empty
\* absolute URL, never the empty string, whatever form the canonical link's
\* href takes (absent, empty, whitespace-only, relative, absolute).
C11_CanonicalNullOrAbsolute ==
    Returned =>
        \/ result.meta.canonical = None
        \/ /\ result.meta.canonical # EmptyStr
           /\ result.meta.canonical \in AbsoluteUrls

\* the length of the serialized markup a section of the returned result was
\* made from: str(body) of the static document for the fallback section,
\* str(elem) of its candidate for an extracted one
MarkupLen(sec) ==
    IF IsFallback(sec)
    THEN IF FallbackSource(html) = None THEN 0 ELSE BodyRaw(html)
    ELSE Candidates(LastDoc)[sec.id[2] + 1].raw

\* C12: for every section, extracted or fallback, truncated is true exactly
\* when the serialized markup is longer than 5000 characters; rawHtml is then
\* its first 5000 characters followed by the marker, and otherwise the markup
\* unchanged (5000 characters are left alone, 5001 are cut).
C12_TruncationAtCap ==
    Returned =>
        \A i \in 1 .. Len(result.sections) :
            LET sec == result.sections[i]
                n == MarkupLen(sec)
            IN /\ sec.truncated <=> n > RAW_HTML_MAX_CHARS
               /\ sec.truncated =>
                     sec.rawHtml.len = RAW_HTML_MAX_CHARS /\ sec.rawHtml.marker
               /\ ~sec.truncated => sec.rawHtml.len = n /\ ~sec.rawHtml.marker

\* a result with a section of exactly 5000 characters of markup left alone
\* next to one of 5001 characters that was cut
C12_Witness ==
    /\ Returned
    /\ Len(result.sections) = 2
    /\ MarkupLen(result.sections[1]) = RAW_HTML_MAX_CHARS
    /\ ~result.sections[1].truncated
    /\ MarkupLen(result.sections[2]) = RAW_HTML_MAX_CHARS + 1
    /\ result.sections[2].truncated

\* the fallback section cut from a static body of 5001 characters
FallbackCut ==
    /\ Returned
    /\ Len(result.sections) = 1
    /\ IsFallback(result.sections[1])
    /\ MarkupLen(result.sections[1]) = RAW_HTML_MAX_CHARS + 1
    /\ result.sections[1].truncated

\* the fallback section made from a static body of exactly 5000 characters
FallbackUncut ==
    /\ Returned
    /\ Len(result.sections) = 1
    /\ IsFallback(result.sections[1])
    /\ MarkupLen(result.sections[1]) = RAW_HTML_MAX_CHARS
    /\ ~result.sections[1].truncated

\* the positions (from 1) of the candidates of doc that have content
KeptPositions(doc) ==
    { p \in 1 .. Len(Candidates(doc)) :
        LET e == Candidates(doc)[p]
        IN e.text > 0 \/ e.links > 0 \/ e.images > 0 \/ e.lists > 0
           \/ e.tables > 0 }

\* the i-th smallest element of a set of numbers
Nth(S, i) == CHOOSE p \in S : Cardinality({ q \in S : q < p }) = i - 1

\* the result's sections are the ones extract_sections emitted
ExtractedResult ==
    Returned /\ result.sections # <<>> /\ ~IsFallback(result.sections[1])

\* C13: in every returned result the section ids are pairwise distinct; each
\* id is "{type}-{index}" with index the position of the block among all the
\* candidate blocks, dropped ones counted; the emitted sections come in
\* strictly increasing index order, the order of the document.
C13_SectionIds ==
    /\ Returned =>
          \A i, j \in 1 .. Len(result.sections) :
              i # j => result.sections[i].id # result.sections[j].id
    /\ ExtractedResult =>
          /\ Len(result.sections) = Cardinality(KeptPositions(LastDoc))
          /\ \A i \in 1 .. Len(result.sections) :
                LET sec == result.sections[i]
                    p == Nth(KeptPositions(LastDoc), i)
                IN /\ sec.id = << sec.type, p - 1 >>
                   /\ sec.type = SectionType(Candidates(LastDoc)[p].tag)
          /\ \A i, j \in 1 .. Len(result.sections) :
                i < j => result.sections[i].id[2] < result.sections[j].id[2]

\* a result whose only section is the second candidate, the first one dropped
C13_Witness ==
    /\ ExtractedResult
    /\ Len(Candidates(LastDoc)) = 2
    /\ Len(result.sections) = 1
    /\ result.sections[1].id = << "section", 1 >>

\* the number of iterations of the pagination loop that loaded a page
Iterations == IF Len(loads) = 0 THEN 0 ELSE Len(loads) - 1

\* the navigator is about to load a page: page.goto and the wait after it
AtLoad == pc \in { "nav_load", "nav_follow" }

\* C14: as long as every wait, navigation and fetch returns or times out (a
\* fetch that raises anything but an httpx.HTTPError does neither), every
\* request eventually returns a result; the pagination loop runs at most 2
\* iterations; a request that came to a load, or whose navigator was left by
\* an exception such as a load's timeout, still returns.
C14_RequestReturns ==
    /\ ([](pc # "raised")) => <>Returned
    /\ [](Iterations <= MAX_PAGES - 1)
    /\ (AtLoad \/ (pc = "merge" /\ html_js = None)) ~> Returned

\* the request returned after a load of the pagination loop timed out
C14_Witness ==
    /\ Returned
    /\ js_calls = 1
    /\ html_js = None
    /\ Len(interactions_js.pages) = 2

\* every request ends, with a result or with the exception of the fetch
Terminates == <>(pc \in { "done", "raised" })

\* the anchor a numbered scan of the current page has to choose: none when
\* no page value is above c, else the one with the smallest such value
ExpectedNext(cur, as) ==
    LET c == IF cur.page = 0 THEN 1 ELSE cur.page
        above == { n \in Range(as) : n > c }
    IN IF above = {} THEN None
       ELSE AbsHref([cur EXCEPT
                       !.page = CHOOSE m \in above : \A n \in above : m <= n])

\* the numbered scan of a page of the numbered site is done
Scanned == site = "numbered" /\ pc = "nav_follow"

\* C15: in the numbered fallback, for every current page number c (1 when
\* the current URL has no parseable page parameter) and every list of
\* anchors, the chosen next URL is the anchor whose page value is the
\* smallest one strictly greater than c; when no anchor has a page value
\* greater than c no target is chosen and the traversal stops.
C15_NumberedChoice ==
    /\ [](Scanned => next_link = ExpectedNext(page_url, page_anchors))
    /\ [][(Scanned /\ ExpectedNext(page_url, page_anchors) = None)
             => (pc' = "nav_capture" /\ loads' = loads)]_vars

\* from a URL without page parameter, with anchors for pages 3 and 2 in that
\* order, page 2 is chosen
C15_Witness ==
    /\ Scanned
    /\ page_url.page = 0
    /\ page_anchors = << 3, 2 >>
    /\ next_link = AbsHref([page_url EXCEPT !.page = 2])

\* no anchor above the current page: the traversal stopped
NumberedStop ==
    /\ site = "numbered"
    /\ pc = "nav_capture"
    /\ page_url.page = 3
    /\ page_anchors = << 3, 2 >>
    /\ Len(loads) = 1

\* C16: in each pagination iteration the numbered fallback is used only when
\* none of the explicit "next" selectors matched an element; when one
\* matched, the target of the first matching selector is the next candidate.
C16_FallbackOnlyWithoutMatch ==
    /\ pc = "nav_numbered" => candidate = None
    /\ (pc = "nav_follow" /\ candidate # None) => next_link = candidate.href

\* the number of recorded clicks that are load-more selectors
LoadMoreClicks(inter) ==
    IF inter = None THEN 0
    ELSE Cardinality({ i \in 1 .. Len(inter.clicks) :
                         inter.clicks[i] \in Range(load_more_selectors) })

\* the smallest element of a non-empty set of numbers
First(S) == CHOOSE m \in S : \A n \in S : m <= n

\* the navigator's log after a step, returned or not
LogAfter == IF pc' = "merge" THEN interactions_js' ELSE nav_inter'

\* a turn of the load-more loop records a click
LoadMoreRecorded ==
    pc = "nav_loadmore" /\ Len(LogAfter.clicks) > Len(nav_inter.clicks)

\* C17: in the load-more flow at most one click is performed and recorded
\* per request; the recorded selector is the first one of the ordered list
\* that has a matching element; the selectors after it are never queried or
\* clicked.
C17_LoadMoreOnce ==
    /\ [](/\ LoadMoreClicks(nav_inter) <= 1
          /\ LoadMoreClicks(interactions_js) <= 1
          /\ Returned => LoadMoreClicks(result.interactions) <= 1)
    /\ []((pc = "nav_loadmore" /\ buttons # {}) => sel_i <= First(buttons))
    /\ [][LoadMoreRecorded =>
            /\ LogAfter.clicks =
                  Append(nav_inter.clicks, load_more_selectors[First(buttons)])
            /\ pc' # "nav_loadmore"]_vars

\* the second selector was clicked and recorded, the first having no match,
\* and the loop was left
C17_Witness ==
    /\ pc = "nav_tab"
    /\ nav_inter.clicks = << load_more_selectors[2] >>

TabLogged(inter) == "tab: [role='tab']" \in Range(inter.clicks)

\* C18: a failure at any step of the tab flow (the query, the click of the
\* first tab, the wait after it) never fails the navigation: no step of the
\* flow leaves the navigator, which goes on with the pagination loop; the
\* tab is recorded in clicks exactly when its click succeeded.
C18_TabFlowContained ==
    /\ [][pc = "nav_tab" => (pc' = "nav_tab_done" /\ nav_inter' = nav_inter)]_vars
    /\ [][pc = "nav_tab_done" =>
            /\ pc' = "nav_next"
            /\ TabLogged(nav_inter') <=> tab_flow = "clicked"]_vars
    /\ [](pc \in { "nav_next", "nav_numbered", "nav_follow", "nav_capture" }
             => (TabLogged(nav_inter) <=> tab_flow = "clicked"))

\* the tab flow raised, nothing was recorded for it, and the navigator went
\* through the pagination loop to the capture of the document
C18_Witness ==
    /\ pc = "nav_capture"
    /\ tab_flow = "raised"
    /\ ~TabLogged(nav_inter)
    /\ Len(nav_inter.pages) = MAX_PAGES

\* the navigator is left by its except clause
NavigatorRaises == InNavigator /\ pc' = "merge" /\ html_js' = None

\* C19: when an exception occurs in render_with_playwright outside the tab
\* flow, it returns no document together with the interaction log as it was
\* filled up to the failure: pages starts with the requested URL, scrolls is
\* the number of completed scrolls (0..3), clicks and the later pages hold
\* the actions that completed before the failure and nothing else.
C19_PartialLogReturned ==
    /\ []((pc = "merge" /\ html_js = None) =>
            /\ interactions_js.pages # <<>>
            /\ interactions_js.pages[1] = url
            /\ interactions_js.scrolls \in 0 .. PLAYWRIGHT_SCROLL_TIMES)
    /\ [][NavigatorRaises =>
            /\ pc \notin { "nav_tab", "nav_tab_done" }
            /\ \/ interactions_js' = nav_inter
               \/ /\ pc = "nav_loadmore"
                  /\ sel_i \in buttons
                  /\ interactions_js' =
                        Clicked(nav_inter, load_more_selectors[sel_i])
               \/ /\ pc = "nav_follow"
                  /\ interactions_js' =
                        Visited(nav_inter, urljoin(page_url, next_link))
               \/ /\ pc = "nav_capture"
                  /\ page_url \notin Range(nav_inter.pages)
                  /\ interactions_js' = Visited(nav_inter, page_url)]_vars

\* the navigator failed after three scrolls, two clicks and a second page
C19_Witness ==
    /\ pc = "merge"
    /\ html_js = None
    /\ interactions_js.scrolls = PLAYWRIGHT_SCROLL_TIMES
    /\ Len(interactions_js.clicks) = 2
    /\ Len(interactions_js.pages) = 2

\* the navigator was invoked and returned no document
DynamicFailed == js_calls = 1 /\ html_js = None /\ pc \in { "merge", "done" }

\* C20: when the navigator is invoked and fails, the result's interactions
\* are the static defaults {clicks: [], scrolls: 0, pages: [request URL]} and
\* its meta and sections are what the static pass produced; the navigator's
\* partial log is not carried into the result.
C20_FailedRenderLeavesStatic ==
    (Returned /\ DynamicFailed) =>
        /\ result.interactions = Interactions(<<>>, 0, << url >>)
        /\ result.meta = IF html = None THEN EmptyMeta ELSE extract_meta(url, html)
        /\ result.sections =
              IF html = None THEN <<>> ELSE extract_sections(url, html)

\* the static pass had extracted a section, the navigator failed after three
\* scrolls and a click, and the result was returned
C20_Witness ==
    /\ Returned
    /\ DynamicFailed
    /\ html # None
    /\ result.sections # <<>>
    /\ interactions_js.scrolls = PLAYWRIGHT_SCROLL_TIMES
    /\ interactions_js.clicks # <<>>

====
